---- MODULE Spec2Model ----
(***************************************************************************)
(* Console Invaders (src/coninv.cpp): the per-frame simulation of main(),  *)
(* the round/restart loop around it, and Shield::hit.                      *)
(*                                                                         *)
(* Units.  Elapsed time is counted in ticks of 0.05 time-units, so the     *)
(* projectile speeds (20 rows per time-unit) are one row per tick and the  *)
(* y coordinate of every projectile stays a whole number of rows.          *)
(* Horizontal float positions (fPlayerX, Bullet::x) are kept in tenths of  *)
(* a column: the player moves 12 columns per time-unit = 6 tenths a tick   *)
(* and starts at 58.5.                                                     *)
(***************************************************************************)
EXTENDS Integers, Sequences, FiniteSets, TLC

\* ---------------------------------------------------------------- constants
nScreenWidth == 120
nScreenHeight == 30
nAlienBlockWidth == 10
nAlienBlockHeight == 4
nAlienGlyphWidth == 3
nPlayerY == nScreenHeight - 1
nMaxAlienBullet == 5
Length == 8
Height == 3
MaxStrength == 3
nShields == 3
\* 0.6 and 1.0 time-units, 0.35 time-units, in ticks
AlienExplodeTicks == 12
PlayerExplodeTicks == 20
AnimDelayTicks == 7
\* fAnimDelay > 10.0 is compared in ticks too
AnimDelayFloorTicks == 200
AnimDelayDecTicks == 1
\* fPlayerVx * 0.05, in tenths of a column
PlayerTenthsPerTick == 6
ScoreIncrement == 100
StartLives == 3

\* ------------------------------------------------------------------- bounds
\* frames with free inputs stepped in one run of the program
MaxFrames == 7
\* rounds started in one run of the program
MaxRounds == 2
\* Shield::hit calls per probed cell in ShieldSpec
MaxCalls == 5
\* where the measure of the time since a strike stops counting, in ticks
StruckCap == 24


Aliens == 0 .. (nAlienBlockWidth * nAlienBlockHeight - 1)
ShieldCells == 0 .. (Length * Height - 1)

alienGlyphs == << <<"<", "o", ">", ">", "o", "<">>,
                  <<"}", "O", "{", "-", "O", "-">>,
                  <<"[", "T", "]", "]", "+", "[">>,
                  <<"(", "+", ")", "-", "x", "-">> >>
shieldGlyphs == <<" ", "-", "=", "#">>
playerGlyph == <<"<", "I", ">">>
specialChars == {"*", "#", "=", "-", " "}

\* roundf on a non-negative value given in tenths
Round(t) == (t + 5) \div 10

\* ------------------------------------------------------------------- Shield
NewShield(x, y) == [m_strength |-> [c \in ShieldCells |-> MaxStrength], nX |-> x, nY |-> y]

InFootprint(s, colX, rowY) ==
    /\ s.nX <= colX /\ colX < s.nX + Length
    /\ s.nY <= rowY /\ rowY < s.nY + Height

ShieldOff(s, colX, rowY) == (rowY - s.nY) * Length + (colX - s.nX)

\* a variant of the guard that still lets a cell without strength absorb
AbsorbsAtZero(strength) == strength >= 0

\* the test that guards the decrement in Shield::hit
Absorbs(strength) == strength > 0

\* a variant of the decrement that adds strength instead
WeakenUp(strength) == strength + 1

\* "m_strength[shieldOff] --"
Weaken(strength) == strength - 1

\* Shield::hit: the shield after the call and the value returned
Hit(s, colX, rowY) ==
    IF InFootprint(s, colX, rowY) /\ Absorbs(s.m_strength[ShieldOff(s, colX, rowY)])
    THEN [shld |-> [s EXCEPT !.m_strength[ShieldOff(s, colX, rowY)] = Weaken(@)], ret |-> TRUE]
    ELSE [shld |-> s, ret |-> FALSE]

RECURSIVE HitShields(_, _, _, _)
\* "for (auto& shld: shields) if (shld.hit(x, y)) ..." : every shield is
\* asked, in order; any is TRUE when some call returned true
HitShields(shs, k, colX, rowY) ==
    IF k > Len(shs) THEN [shields |-> shs, any |-> FALSE]
    ELSE LET h == Hit(shs[k], colX, rowY)
             rest == HitShields([shs EXCEPT ![k] = h.shld], k + 1, colX, rowY)
         IN  [shields |-> rest.shields, any |-> h.ret \/ rest.any]

\* a variant of the placement in which the three footprints overlap
InitShieldsOverlapping == [i \in 1 .. nShields |-> NewShield(58 + i, nScreenHeight - 6)]

\* "shields.push_back(Shield((i+1)*30, nScreenHeight-6))" for i = 0, 1, 2
InitShields == [i \in 1 .. nShields |-> NewShield(i * 30, nScreenHeight - 6)]

\* -------------------------------------------------------------------- state
VARIABLES
    pc,               \* "round": in the frame loop, "wait": post-round polling,
                      \* "done": main returned, "aborted": killed by a stray store
    bQuit, bGameOver,
    alienState,       \* Aliens -> 0 Alive, 1 Exploding, 2 Dead
    nAlienStep, nAlienBlockX, nAlienBlockY,
    fAnimElapsed, fAnimDelay, bUpdateAnim, nFrameOffset,
    fExplodingElapsed, nAlienExploding,
    iAlien, jAlien,
    fPlayerX, bPlayerHit, nLives, nScore,
    bullet,           \* [visible, x (tenths), y (rows)]
    alienBullets,     \* sequence of nMaxAlienBullet such records
    shields,          \* sequence of nShields Shield records
    bKeyPressed,      \* the keys sampled by the last frame
    bKeyHold,         \* bKeyHold[SPACEBAR], the only latch that is read
    fElapsedTime,     \* the elapsed time of the last frame (shown as FPS)
    oobAccess,        \* the out-of-range accesses made by the last frame
    fSinceStruck,     \* Aliens -> ticks measured since the cell was struck, -1 if not Exploding
    fSinceHit,        \* ticks measured since the player was hit, -1 if not in the hit state
    fireReleased,     \* the fire key was sampled up in a frame since the last launch
    nAbsorbed,        \* projectiles for which some Shield::hit returned true in the last frame
    nFrames, nRounds, \* frames stepped in this round, rounds started so far
    plan,             \* the inputs this run draws from
    probe, probeCalls, probeTrue, probeRet, probeArg   \* ShieldSpec

gameVars == <<pc, bQuit, bGameOver, alienState, nAlienStep, nAlienBlockX, nAlienBlockY,
              fAnimElapsed, fAnimDelay, bUpdateAnim, nFrameOffset, fExplodingElapsed,
              nAlienExploding, iAlien, jAlien, fPlayerX, bPlayerHit, nLives, nScore,
              bullet, alienBullets, shields, bKeyPressed, bKeyHold, fElapsedTime,
              oobAccess, fSinceStruck, fSinceHit, fireReleased, nAbsorbed, nFrames, nRounds,
              plan>>
probeVars == <<probe, probeCalls, probeTrue, probeRet, probeArg>>
vars == <<gameVars, probeVars>>

\* ----------------------------------------------------------- the formation
GetAlienScreenOffset(i, j) == (2 * i + nAlienBlockY) * nScreenWidth + nAlienBlockX + j * 6

AlienIndex(i, j) == i * nAlienBlockWidth + j

\* ------------------------------------------------------ the rendered frame
\* The screen buffer is rewritten from the round state at the end of every
\* frame, so what the next frame reads back is a function of the state the
\* frame starts in: Glyph(off) is screen[off] as left by the last render.
DigitChar == <<"0", "1", "2", "3", "4", "5", "6", "7", "8", "9">>

RECURSIVE Digits(_)
\* "%d" of a non-negative number
Digits(n) == IF n < 10 THEN <<DigitChar[n + 1]>> ELSE Digits(n \div 10) \o <<DigitChar[(n % 10) + 1]>>

Blanks(n) == [k \in 1 .. n |-> " "]

PadLeft(ds, w) == IF Len(ds) >= w THEN ds ELSE Blanks(w - Len(ds)) \o ds

\* "%.1f" of 1.0f/fElapsedTime: 20/dt to one decimal, "inf" for dt = 0
FpsText(dt) ==
    IF dt = 0 THEN <<"i", "n", "f">>
    ELSE LET t == (400 + dt) \div (2 * dt)
         IN  Digits(t \div 10) \o <<".">> \o Digits(t % 10)

\* swprintf_s(&screen[2], 64, L"Score: %6d   Lives: %2d   FPS: %.1f", ...)
ScoreLine ==
    <<"S", "c", "o", "r", "e", ":", " ">> \o PadLeft(Digits(nScore), 6)
    \o <<" ", " ", " ", "L", "i", "v", "e", "s", ":", " ">> \o PadLeft(Digits(nLives), 2)
    \o <<" ", " ", " ", "F", "P", "S", ":", " ">> \o FpsText(fElapsedTime)

\* the animation frame DrawAliens was called with: nFrameOffset is toggled
\* after the render when bUpdateAnim is set
DrawnFrameOffset == IF bUpdateAnim THEN (IF nFrameOffset = 3 THEN 0 ELSE 3) ELSE nFrameOffset

\* the cells DrawAliens writes for alien (i, j): none for a Dead one
AlienDrawn(i, j, off) ==
    /\ alienState[AlienIndex(i, j)] \in {0, 1}
    /\ GetAlienScreenOffset(i, j) <= off /\ off < GetAlienScreenOffset(i, j) + 3

AlienGlyphAt(i, j, off) ==
    IF alienState[AlienIndex(i, j)] = 0
    THEN alienGlyphs[(i % 4) + 1][DrawnFrameOffset + (off - GetAlienScreenOffset(i, j)) + 1]
    ELSE "x"

BulletOffset(b) == b.y * nScreenWidth + Round(b.x)

ShieldCovers(s, off) ==
    \E i \in 0 .. Height - 1, j \in 0 .. Length - 1 : (s.nY + i) * nScreenWidth + s.nX + j = off

PlayerOffset(k) == nPlayerY * nScreenWidth + Round(fPlayerX) + k

\* last write wins: DrawBullets, DrawPlayer, DrawAliens, DrawShields, the
\* score line, ClearBuffer
Glyph(off) ==
    IF \E k \in 1 .. nMaxAlienBullet : alienBullets[k].visible /\ BulletOffset(alienBullets[k]) = off
    THEN "*"
    ELSE IF bullet.visible /\ BulletOffset(bullet) = off THEN "|"
    ELSE IF \E k \in 0 .. 2 : PlayerOffset(k) = off
    THEN (IF bPlayerHit THEN "X" ELSE playerGlyph[off - PlayerOffset(0) + 1])
    ELSE IF \E i \in 0 .. nAlienBlockHeight - 1, j \in 0 .. nAlienBlockWidth - 1 : AlienDrawn(i, j, off)
    THEN LET a == CHOOSE a \in Aliens : AlienDrawn(a \div nAlienBlockWidth, a % nAlienBlockWidth, off)
         IN  AlienGlyphAt(a \div nAlienBlockWidth, a % nAlienBlockWidth, off)
    ELSE IF \E n \in 1 .. nShields : ShieldCovers(shields[n], off)
    THEN LET s == shields[CHOOSE n \in 1 .. nShields : ShieldCovers(shields[n], off)]
         IN  shieldGlyphs[s.m_strength[ShieldOff(s, off % nScreenWidth, off \div nScreenWidth)] + 1]
    ELSE IF 2 <= off /\ off < 2 + Len(ScoreLine)
    THEN ScoreLine[off - 2 + 1]
    ELSE " "

\* ------------------------------------------------------------------ HitAlien
\* the cell HitAlien reads, for the projectile at rounded (nBulletX, nBulletY)
BulletIndex(nBulletX, nBulletY) == (nBulletY - 1) * nScreenWidth + nBulletX

\* what HitAlien returns: the projectile is below the top row and the cell
\* one row above it holds none of the characters to ignore
HitAlienRet(nBulletX, nBulletY) ==
    nBulletY > 0 /\ Glyph(BulletIndex(nBulletX, nBulletY)) \notin specialChars

\* the footprints that contain the cell, whatever the state of the alien
Struck(nBulletX, nBulletY) ==
    {a \in Aliens :
        LET o == GetAlienScreenOffset(a \div nAlienBlockWidth, a % nAlienBlockWidth)
        IN  o <= BulletIndex(nBulletX, nBulletY) /\ BulletIndex(nBulletX, nBulletY) < o + 3}

Min(S) == CHOOSE x \in S : \A y \in S : x <= y

\* *iAlien, *jAlien after the call: the first footprint in row-major order,
\* and the values they held before when no footprint contains the cell
HitAlienOut(nBulletX, nBulletY) ==
    IF HitAlienRet(nBulletX, nBulletY) /\ Struck(nBulletX, nBulletY) # {}
    THEN [i |-> Min(Struck(nBulletX, nBulletY)) \div nAlienBlockWidth,
          j |-> Min(Struck(nBulletX, nBulletY)) % nAlienBlockWidth]
    ELSE [i |-> iAlien, j |-> jAlien]


\* -------------------------------------------------------- steps of a frame
MaxPlayerX == 10 * (nScreenWidth - Len(playerGlyph))

\* the two lateral movement blocks, left then right
MovePlayer(x, keys, dt, hit) ==
    LET dx == PlayerTenthsPerTick * dt
        xl == IF keys.LEFT_ARROW /\ ~hit THEN (IF x > dx THEN x - dx ELSE 0) ELSE x
    IN  IF keys.RIGHT_ARROW /\ ~hit
        THEN (IF xl + dx <= MaxPlayerX THEN xl + dx ELSE MaxPlayerX)
        ELSE xl

\* the amount taken off fAnimDelay at an edge reversal
AnimDelayDec(delay) == IF delay > AnimDelayFloorTicks THEN AnimDelayDecTicks ELSE 0

FlipStep(step) == IF step = 1 THEN -1 ELSE 1

\* a variant of the right-edge test that lets the formation go ten columns further
AtRightEdgeLate(x) == x + 2 * nAlienBlockWidth * nAlienGlyphWidth >= nScreenWidth + 10

\* "reached the right side of the screen"
AtRightEdge(x) == x + 2 * nAlienBlockWidth * nAlienGlyphWidth >= nScreenWidth

\* "reached the left side of the screen"
AtLeftEdge(x) == x <= 0

\* "Aliens at the bottom of the screen"
AtBottom(y) == y + nAlienBlockHeight >= nScreenHeight

\* a variant of the descent that climbs instead
DescendUp(y) == y - 1

\* "nAlienBlockY ++"
Descend(y) == y + 1

\* a variant of "Firing" that launches on every sample of the fire key
FiringBranchRelaunch(visible, space, hold, hit) ==
    IF space /\ ~hit THEN "launch" ELSE IF visible THEN "move" ELSE "release"

\* the branch "Firing" takes: the projectile in flight moves, else a launch
\* if the fire key is down with the latch armed and the player not hit,
\* else the latch is armed
FiringBranch(visible, space, hold, hit) ==
    IF visible THEN "move" ELSE IF space /\ hold /\ ~hit THEN "launch" ELSE "release"

\* "Move the aliens": f is [x, y, step, delay, over]
MoveAliens(f, upd) ==
    IF AtBottom(f.y)
    THEN [f EXCEPT !.over = TRUE, !.y = 2]
    ELSE IF upd /\ AtRightEdge(f.x)
    THEN [f EXCEPT !.step = FlipStep(f.step), !.y = Descend(f.y), !.x = f.x - 1,
                   !.delay = f.delay - AnimDelayDec(f.delay)]
    ELSE IF upd /\ AtLeftEdge(f.x)
    THEN [f EXCEPT !.step = FlipStep(f.step), !.y = Descend(f.y), !.x = f.x + 1,
                   !.delay = f.delay - AnimDelayDec(f.delay)]
    ELSE [f EXCEPT !.x = f.x + (IF upd THEN f.step ELSE 0)]

\* AlienFire launches the first invisible projectile of the pool, from
\* alien (i, j) of the formation at f
FreeSlots(bs) == {k \in 1 .. Len(bs) : ~bs[k].visible}

AlienFire(i, j, f) == [visible |-> TRUE, x |-> 10 * (f.x + 6 * j + 1), y |-> f.y + i + 1]

\* "update alien firing": the aliens of fire drew a value below their fire
\* probability.  The Alive ones call AlienFire in row-major order and each
\* call takes the first projectile still invisible, so the n-th caller gets
\* the n-th free projectile of the pool and the callers beyond get nothing.
FireAll(bs, fire, st, f) ==
    LET callers == {a \in fire : st[a] = 0}
        Nth(S, x) == Cardinality({y \in S : y < x}) + 1
    IN  [k \in 1 .. Len(bs) |->
            IF bs[k].visible \/ ~\E a \in callers : Nth(callers, a) = Nth(FreeSlots(bs), k)
            THEN bs[k]
            ELSE LET a == CHOOSE a \in callers : Nth(callers, a) = Nth(FreeSlots(bs), k)
                 IN  AlienFire(a \div nAlienBlockWidth, a % nAlienBlockWidth, f)]

\* "nLives -= (nLives > 0) ? 1: 0"
LivesAfterHit(n) == n - (IF n > 0 THEN 1 ELSE 0)

\* a variant in which losing the last life does not raise the flag
GameOverAfterHitNever(n) == n < 0

\* "bGameOver = nLives == 0", on the lives the hit leaves
GameOverAfterHit(n) == n = 0

\* the player-hit test made for an enemy projectile at rounded (nX, nY)
PlayerHitTest(hit, nX, nY, nPlayerX) ==
    ~hit /\ nY = nScreenHeight /\ nPlayerX <= nX /\ nX < nPlayerX + 3

RECURSIVE UpdateAlienBullets(_, _, _, _)
\* "update alien bullets": r is [bs, shields, hit, lives, over, absorbed]
UpdateAlienBullets(r, k, dt, px) ==
    IF k > nMaxAlienBullet THEN r
    ELSE IF ~r.bs[k].visible THEN UpdateAlienBullets(r, k + 1, dt, px)
    ELSE LET y1 == r.bs[k].y + dt
             nX == Round(r.bs[k].x)
             sh == HitShields(r.shields, 1, nX, y1)
             vis1 == ~sh.any
             struck == PlayerHitTest(r.hit, nX, y1, Round(px))
             vis2 == IF struck \/ y1 >= nScreenHeight THEN FALSE ELSE vis1
         IN  UpdateAlienBullets(
                 [bs |-> [r.bs EXCEPT ![k] = [visible |-> vis2, x |-> r.bs[k].x, y |-> y1]],
                  shields |-> sh.shields,
                  hit |-> r.hit \/ struck,
                  lives |-> IF struck THEN LivesAfterHit(r.lives) ELSE r.lives,
                  over |-> IF struck THEN GameOverAfterHit(LivesAfterHit(r.lives)) ELSE r.over,
                  absorbed |-> r.absorbed + (IF sh.any THEN 1 ELSE 0)],
                 k + 1, dt, px)

\* "animate exploding alien": e is [st, exploding, elapsed, oob]
AnimateAlien(e, dt) ==
    IF e.exploding = -1 THEN e
    ELSE IF e.elapsed < AlienExplodeTicks THEN [e EXCEPT !.elapsed = e.elapsed + dt]
    ELSE [st |-> IF e.exploding \in Aliens THEN [e.st EXCEPT ![e.exploding] = 2] ELSE e.st,
          exploding |-> -1, elapsed |-> 0,
          oob |-> IF e.exploding \in Aliens THEN e.oob ELSE e.oob \cup {"alienState"}]

\* "animate exploding player": p is [hit, elapsed]
AnimatePlayer(p, dt) ==
    IF ~p.hit THEN p
    ELSE IF p.elapsed < PlayerExplodeTicks THEN [p EXCEPT !.elapsed = p.elapsed + dt]
    ELSE [hit |-> FALSE, elapsed |-> 0]


\* -------------------------------------------------------------- round start
NewBullet == [visible |-> FALSE, x |-> 0, y |-> 0]

\* InitGame and the locals of main set up at the top of the round loop; the
\* globals nAlienStep and bKeyHold keep the values step and hold they have
RoundStart(step, hold) ==
    [alienState |-> [a \in Aliens |-> 0],
     nAlienStep |-> step, nAlienBlockX |-> 2, nAlienBlockY |-> 2,
     fAnimElapsed |-> 0, fAnimDelay |-> AnimDelayTicks,
     bUpdateAnim |-> FALSE, nFrameOffset |-> 0,
     fExplodingElapsed |-> 0, nAlienExploding |-> -1,
     iAlien |-> -1, jAlien |-> -1,
     fPlayerX |-> MaxPlayerX \div 2,
     bPlayerHit |-> FALSE, nLives |-> StartLives, nScore |-> 0,
     bullet |-> NewBullet,
     alienBullets |-> [k \in 1 .. nMaxAlienBullet |-> NewBullet],
     shields |-> InitShields,
     bKeyHold |-> hold]

\* ------------------------------------------------------------------ inputs
\* A run draws its inputs from a plan.  Its first `opening` frames are
\* quiet: each measures one animation delay, no alien fires, and no key is
\* down but the left arrow in the first `walk` of them.  The frames after
\* the opening draw the elapsed time from dts, the keys from keys and, if
\* fire is set, at most one firing alien from those above the player.
Key(k) == [ESC |-> k = "ESC", LEFT_ARROW |-> k = "LEFT_ARROW",
           RIGHT_ARROW |-> k = "RIGHT_ARROW", SPACEBAR |-> k = "SPACEBAR"]

NoKeys == Key("none")

\* the formation marches down the whole screen untouched
MarchPlan ==
    [opening |-> 1439, walk |-> 0, dts |-> {AnimDelayTicks}, keys |-> {NoKeys, Key("SPACEBAR")},
     fire |-> FALSE]

Plans ==
    { MarchPlan,
      \* the first frames of a round, every key
      [opening |-> 0, walk |-> 0, dts |-> {AnimDelayTicks},
       keys |-> {NoKeys, Key("LEFT_ARROW"), Key("RIGHT_ARROW"), Key("SPACEBAR"), Key("ESC")},
       fire |-> FALSE],
      \* the aliens fire on the player, early in the round and at the bottom
      [opening |-> 3, walk |-> 0, dts |-> {24},
       keys |-> {NoKeys, Key("LEFT_ARROW"), Key("ESC")}, fire |-> TRUE],
      [opening |-> 1438, walk |-> 0, dts |-> {24},
       keys |-> {NoKeys, Key("LEFT_ARROW"), Key("ESC")}, fire |-> TRUE],
      \* the aliens fire on the player while they march to the left
      [opening |-> 63, walk |-> 0, dts |-> {23}, keys |-> {NoKeys}, fire |-> TRUE],
      \* the aliens fire on the player while an alien explodes, the fire key held
      [opening |-> 841, walk |-> 0, dts |-> {10, 11}, keys |-> {Key("SPACEBAR")}, fire |-> TRUE],
      \* the aliens fire on the shield in front of the player
      [opening |-> 3, walk |-> 0, dts |-> {20}, keys |-> {NoKeys}, fire |-> TRUE],
      \* the player fires with the formation right above the shields
      [opening |-> 1083, walk |-> 0, dts |-> {1, 3}, keys |-> {NoKeys, Key("SPACEBAR")},
       fire |-> FALSE],
      \* the player fires from under the score line
      [opening |-> 88, walk |-> 7, dts |-> {3, 24}, keys |-> {NoKeys, Key("SPACEBAR")},
       fire |-> FALSE] }

InPoints == {<<30, 24>>, <<37, 26>>}

OutPoints == {<<29, 24>>, <<38, 24>>, <<30, 23>>, <<30, 27>>}

ProbeInit ==
    /\ probe = NewShield(30, nScreenHeight - 6)
    /\ probeCalls = [q \in InPoints |-> 0]
    /\ probeTrue = [q \in InPoints |-> 0]
    /\ probeRet = FALSE /\ probeArg = <<0, 0>>

Init ==
    /\ \E r \in {RoundStart(1, TRUE)} :
            /\ alienState = r.alienState
            /\ nAlienStep = r.nAlienStep /\ nAlienBlockX = r.nAlienBlockX
            /\ nAlienBlockY = r.nAlienBlockY
            /\ fAnimElapsed = r.fAnimElapsed /\ fAnimDelay = r.fAnimDelay
            /\ bUpdateAnim = r.bUpdateAnim /\ nFrameOffset = r.nFrameOffset
            /\ fExplodingElapsed = r.fExplodingElapsed /\ nAlienExploding = r.nAlienExploding
            /\ iAlien = r.iAlien /\ jAlien = r.jAlien
            /\ fPlayerX = r.fPlayerX /\ bPlayerHit = r.bPlayerHit
            /\ nLives = r.nLives /\ nScore = r.nScore
            /\ bullet = r.bullet /\ alienBullets = r.alienBullets /\ shields = r.shields
            /\ bKeyHold = r.bKeyHold
    /\ bKeyPressed = NoKeys /\ fElapsedTime = 0
    /\ pc = "round" /\ bQuit = FALSE /\ bGameOver = FALSE
    /\ oobAccess = {} /\ fSinceStruck = [a \in Aliens |-> -1]
    /\ fSinceHit = -1 /\ fireReleased = TRUE /\ nAbsorbed = 0
    /\ nFrames = 0 /\ nRounds = 1
    /\ plan \in Plans
    /\ ProbeInit

\* ------------------------------------------------------------------ a frame
\* the offsets DrawAliens writes with the formation at f and the states st
DrawAliensOffsets(f, st) ==
    {(2 * (a \div nAlienBlockWidth) + f.y) * nScreenWidth + f.x + (a % nAlienBlockWidth) * 6 + k :
        a \in {b \in Aliens : st[b] \in {0, 1}}, k \in 0 .. 2}

ScreenCells == 0 .. (nScreenWidth * nScreenHeight - 1)

\* one pass of the body of "while (! bGameOver)": dt is the measured elapsed
\* time, keys the sampled key states, fire the aliens whose random draw came
\* out below their fire probability.  The value is the state the pass leaves.
FrameResult(dt, keys, fire) ==
    LET animElapsed == fAnimElapsed + dt
        upd == animElapsed >= fAnimDelay
        over1 == keys.ESC
        px == MovePlayer(fPlayerX, keys, dt, bPlayerHit)
        \* ---- Firing
        nBulletX == Round(bullet.x)
        nBulletY == bullet.y - dt
        branch == FiringBranch(bullet.visible, keys.SPACEBAR, bKeyHold, bPlayerHit)
        sh == IF branch = "move" THEN HitShields(shields, 1, nBulletX, nBulletY)
              ELSE [shields |-> shields, any |-> FALSE]
        tested == branch = "move" /\ nBulletY > 0
        hitAlien == tested /\ HitAlienRet(nBulletX, nBulletY)
        out == IF tested THEN HitAlienOut(nBulletX, nBulletY) ELSE [i |-> iAlien, j |-> jAlien]
        target == AlienIndex(out.i, out.j)
        bullet1 == IF branch = "move"
                   THEN [visible |-> ~(sh.any \/ nBulletY <= 0 \/ hitAlien),
                         x |-> bullet.x, y |-> nBulletY]
                   ELSE IF branch = "launch"
                   THEN [visible |-> TRUE, x |-> px + 10, y |-> nScreenHeight - 2]
                   ELSE bullet
        hold1 == IF branch = "move" THEN bKeyHold ELSE branch = "release"
        st1 == IF hitAlien /\ target \in Aliens THEN [alienState EXCEPT ![target] = 1]
               ELSE alienState
        oob1 == (IF tested /\ BulletIndex(nBulletX, nBulletY) \notin ScreenCells
                 THEN {"HitAlien"} ELSE {})
                \cup (IF hitAlien /\ target \notin Aliens THEN {"alienState"} ELSE {})
        elapsed1 == IF hitAlien THEN 0 ELSE fExplodingElapsed
        exploding1 == IF hitAlien THEN target ELSE nAlienExploding
        score1 == IF hitAlien THEN nScore + ScoreIncrement ELSE nScore
        \* ---- Move the aliens
        f == MoveAliens([x |-> nAlienBlockX, y |-> nAlienBlockY, step |-> nAlienStep,
                         delay |-> fAnimDelay, over |-> over1], upd)
        \* ---- alien firing and alien bullets
        fired == FireAll(alienBullets, fire, st1, f)
        ab == UpdateAlienBullets([bs |-> fired, shields |-> sh.shields, hit |-> bPlayerHit,
                                  lives |-> nLives, over |-> f.over,
                                  absorbed |-> IF sh.any THEN 1 ELSE 0], 1, dt, px)
        \* ---- explosion timers
        ea == AnimateAlien([st |-> st1, exploding |-> exploding1, elapsed |-> elapsed1,
                            oob |-> oob1], dt)
        ep == AnimatePlayer([hit |-> ab.hit, elapsed |-> ea.elapsed], dt)
        \* ---- Update screen
        oob2 == ea.oob
                \cup (IF DrawAliensOffsets(f, ea.st) \subseteq ScreenCells THEN {} ELSE {"DrawAliens"})
                \cup (IF \A n \in 1 .. nShields : \A c \in ShieldCells :
                            /\ ab.shields[n].m_strength[c] \in 0 .. MaxStrength
                            /\ (ab.shields[n].nY + (c \div Length)) * nScreenWidth
                                 + ab.shields[n].nX + (c % Length) \in ScreenCells
                      THEN {} ELSE {"DrawShields"})
                \cup (IF \A k \in 0 .. 2 :
                            nPlayerY * nScreenWidth + Round(px) + k < nScreenHeight * nScreenWidth
                            => nPlayerY * nScreenWidth + Round(px) + k \in ScreenCells
                      THEN {} ELSE {"DrawPlayer"})
                \cup (IF /\ bullet1.visible => BulletOffset(bullet1) \in ScreenCells
                         /\ \A k \in 1 .. nMaxAlienBullet :
                               ab.bs[k].visible => BulletOffset(ab.bs[k]) \in ScreenCells
                      THEN {} ELSE {"DrawBullets"})
    IN  [alienState |-> ea.st,
         nAlienStep |-> f.step, nAlienBlockX |-> f.x, nAlienBlockY |-> f.y,
         fAnimElapsed |-> (IF upd THEN 0 ELSE animElapsed), fAnimDelay |-> f.delay,
         bUpdateAnim |-> upd,
         nFrameOffset |-> (IF upd THEN (IF nFrameOffset = 3 THEN 0 ELSE 3) ELSE nFrameOffset),
         fExplodingElapsed |-> ep.elapsed, nAlienExploding |-> ea.exploding,
         iAlien |-> out.i, jAlien |-> out.j,
         fPlayerX |-> px, bPlayerHit |-> ep.hit, nLives |-> ab.lives, nScore |-> score1,
         bullet |-> bullet1, alienBullets |-> ab.bs, shields |-> ab.shields,
         bKeyPressed |-> keys, bKeyHold |-> hold1, fElapsedTime |-> dt,
         bGameOver |-> ab.over, bQuit |-> (bQuit \/ keys.ESC), oobAccess |-> oob2,
         nAbsorbed |-> ab.absorbed]


\* the lowest Alive alien of the column above the player, or one column to
\* its side: the formation may step sideways before the alien fires
Shooters ==
    {a \in Aliens :
        /\ alienState[a] = 0
        /\ \A b \in Aliens : (b % nAlienBlockWidth = a % nAlienBlockWidth /\ b > a) => alienState[b] # 0
        /\ Round(fPlayerX) - 1 <= nAlienBlockX + 6 * (a % nAlienBlockWidth) + 1
        /\ nAlienBlockX + 6 * (a % nAlienBlockWidth) + 1 < Round(fPlayerX) + 4}

\* the inputs of the next frame
Quiet == nFrames < plan.opening

DtSet == IF Quiet THEN {AnimDelayTicks} ELSE plan.dts

KeyCombos == IF Quiet THEN {IF nFrames < plan.walk THEN Key("LEFT_ARROW") ELSE NoKeys}
             ELSE plan.keys

FireSets == IF Quiet \/ ~plan.fire THEN {{}} ELSE {{}} \cup {{a} : a \in Shooters}

\* measured time since each Exploding cell was struck, the frame of the
\* strike included, as the explosion timer counts it

SinceStruck(st, dt) ==
    [a \in Aliens |->
        IF st[a] # 1 THEN -1
        ELSE IF alienState[a] # 1 THEN dt
        ELSE IF fSinceStruck[a] + dt > StruckCap THEN StruckCap
        ELSE fSinceStruck[a] + dt]

\* measured time since the player was hit, the frame of the hit included
SinceHit(hit, dt) ==
    IF ~hit THEN -1
    ELSE IF ~bPlayerHit THEN dt
    ELSE IF fSinceHit + dt > StruckCap THEN StruckCap
    ELSE fSinceHit + dt

\* whether the fire key has been sampled up since the last launch: b is the
\* player projectile the frame leaves
Released(b, keys) ==
    IF ~bullet.visible /\ b.visible THEN FALSE
    ELSE fireReleased \/ ~keys.SPACEBAR

\* A frame of the round loop.  An out-of-range store is undefined behaviour:
\* either it lands outside every object of the round and the frame completes
\* ("silent"), or the process is killed ("abort").
Frame ==
    /\ pc = "round"
    /\ nFrames < plan.opening + MaxFrames
    /\ \E dt \in DtSet, keys \in KeyCombos, fire \in FireSets, outcome \in {"silent", "abort"} :
        \E r \in {FrameResult(dt, keys, fire)} :
            IF outcome = "abort"
            THEN /\ r.oobAccess # {}
                 /\ pc' = "aborted"
                 /\ oobAccess' = r.oobAccess
                 /\ UNCHANGED <<bQuit, bGameOver, alienState, nAlienStep, nAlienBlockX,
                                nAlienBlockY, fAnimElapsed, fAnimDelay, bUpdateAnim,
                                nFrameOffset, fExplodingElapsed, nAlienExploding, iAlien,
                                jAlien, fPlayerX, bPlayerHit, nLives, nScore, bullet,
                                alienBullets, shields, bKeyPressed, bKeyHold, fElapsedTime,
                                fSinceStruck, fSinceHit, fireReleased, nAbsorbed, nFrames,
                                nRounds, plan>>
            ELSE /\ pc' = (IF r.bGameOver THEN (IF r.bQuit THEN "done" ELSE "wait") ELSE "round")
                 /\ bQuit' = r.bQuit /\ bGameOver' = r.bGameOver
                 /\ alienState' = r.alienState
                 /\ nAlienStep' = r.nAlienStep /\ nAlienBlockX' = r.nAlienBlockX
                 /\ nAlienBlockY' = r.nAlienBlockY
                 /\ fAnimElapsed' = r.fAnimElapsed /\ fAnimDelay' = r.fAnimDelay
                 /\ bUpdateAnim' = r.bUpdateAnim /\ nFrameOffset' = r.nFrameOffset
                 /\ fExplodingElapsed' = r.fExplodingElapsed
                 /\ nAlienExploding' = r.nAlienExploding
                 /\ iAlien' = r.iAlien /\ jAlien' = r.jAlien
                 /\ fPlayerX' = r.fPlayerX /\ bPlayerHit' = r.bPlayerHit
                 /\ nLives' = r.nLives /\ nScore' = r.nScore
                 /\ bullet' = r.bullet /\ alienBullets' = r.alienBullets
                 /\ shields' = r.shields
                 /\ bKeyPressed' = r.bKeyPressed /\ bKeyHold' = r.bKeyHold
                 /\ fElapsedTime' = r.fElapsedTime
                 /\ oobAccess' = r.oobAccess
                 /\ fSinceStruck' = SinceStruck(r.alienState, dt)
                 /\ fSinceHit' = SinceHit(r.bPlayerHit, dt)
                 /\ fireReleased' = Released(r.bullet, keys)
                 /\ nAbsorbed' = r.nAbsorbed
                 /\ nFrames' = nFrames + 1
                 /\ UNCHANGED <<nRounds, plan>>
    /\ UNCHANGED probeVars

\* the post-round loop sees the spacebar down: the outer loop starts the
\* next round
Restart ==
    /\ pc = "wait"
    /\ nRounds < MaxRounds
    /\ \E r \in {RoundStart(nAlienStep, bKeyHold)} :
           /\ alienState' = r.alienState
           /\ nAlienStep' = r.nAlienStep /\ nAlienBlockX' = r.nAlienBlockX
           /\ nAlienBlockY' = r.nAlienBlockY
           /\ fAnimElapsed' = r.fAnimElapsed /\ fAnimDelay' = r.fAnimDelay
           /\ bUpdateAnim' = r.bUpdateAnim /\ nFrameOffset' = r.nFrameOffset
           /\ fExplodingElapsed' = r.fExplodingElapsed /\ nAlienExploding' = r.nAlienExploding
           /\ iAlien' = r.iAlien /\ jAlien' = r.jAlien
           /\ fPlayerX' = r.fPlayerX /\ bPlayerHit' = r.bPlayerHit
           /\ nLives' = r.nLives /\ nScore' = r.nScore
           /\ bullet' = r.bullet /\ alienBullets' = r.alienBullets /\ shields' = r.shields
           /\ bKeyHold' = r.bKeyHold
    /\ pc' = "round" /\ bGameOver' = FALSE
    /\ fSinceStruck' = [a \in Aliens |-> -1]
    /\ fSinceHit' = -1 /\ fireReleased' = TRUE /\ nAbsorbed' = 0
    /\ nFrames' = 0
    /\ nRounds' = nRounds + 1
    /\ UNCHANGED <<bQuit, bKeyPressed, fElapsedTime, oobAccess, plan>>
    /\ UNCHANGED probeVars

\* the post-round loop sees ESC down and the spacebar up: main returns
WaitQuit ==
    /\ pc = "wait"
    /\ pc' = "done" /\ bQuit' = TRUE
    /\ UNCHANGED <<bGameOver, alienState, nAlienStep, nAlienBlockX, nAlienBlockY,
                   fAnimElapsed, fAnimDelay, bUpdateAnim, nFrameOffset, fExplodingElapsed,
                   nAlienExploding, iAlien, jAlien, fPlayerX, bPlayerHit, nLives, nScore,
                   bullet, alienBullets, shields, bKeyPressed, bKeyHold, fElapsedTime,
                   oobAccess, fSinceStruck, fSinceHit, fireReleased, nAbsorbed, nFrames,
                   nRounds, plan>>
    /\ UNCHANGED probeVars

Next == Frame \/ Restart \/ WaitQuit

Spec == Init /\ [][Next]_vars

\* The round loop never waits: as long as the loop condition holds the next
\* frame is stepped.  LiveSpec follows the untouched march, whose rounds fit
\* in the frames a run may step.
LiveInit == Init /\ plan = MarchPlan

LiveSpec == LiveInit /\ [][Next]_vars /\ WF_vars(Frame)


\* --------------------------------------------------------- Shield::hit alone
\* ShieldSpec calls Shield::hit again and again on one fresh shield, at two
\* cells of its footprint and at four cells just outside of it.
HitCall ==
    /\ \E q \in InPoints \cup OutPoints :
        /\ q \in InPoints => probeCalls[q] < MaxCalls
        /\ \E h \in {Hit(probe, q[1], q[2])} :
            /\ probe' = h.shld
            /\ probeRet' = h.ret
            /\ probeArg' = q
            /\ probeCalls' = IF q \in InPoints THEN [probeCalls EXCEPT ![q] = @ + 1] ELSE probeCalls
            /\ probeTrue' = IF q \in InPoints /\ h.ret THEN [probeTrue EXCEPT ![q] = @ + 1]
                            ELSE probeTrue
    /\ UNCHANGED gameVars

ShieldSpec == Init /\ [][HitCall]_vars

\* -------------------------------------------------------------- properties
\* a step that completes a frame of the round loop
FrameStep == nFrames' = nFrames + 1

Exploding == {a \in Aliens : alienState[a] = 1}

\* C1: at most one enemy cell is Exploding, a cell is Exploding exactly when
\* it is the cell nAlienExploding names, and nAlienExploding is -1 when no
\* cell is Exploding.
C1_OneExploding ==
    /\ Cardinality(Exploding) <= 1
    /\ \A a \in Aliens : alienState[a] = 1 <=> a = nAlienExploding
    /\ Exploding = {} => nAlienExploding = -1

\* C2: an Exploding cell becomes Dead after its fixed explosion duration:
\* it is not Dead before 0.6 time-units have been measured since it was
\* struck, and it is Dead after the first frame that starts with 0.6
\* time-units measured.
C2_ExplosionDuration ==
    [][FrameStep =>
        \A a \in Aliens : alienState[a] = 1 =>
            /\ alienState'[a] = 2 => fSinceStruck[a] + fElapsedTime' >= AlienExplodeTicks
            /\ fSinceStruck[a] >= AlienExplodeTicks => alienState'[a] = 2]_vars

\* C3: across a frame no Dead cell becomes Exploding or Alive and no
\* Exploding cell becomes Alive.
C3_ForwardOnly ==
    [][FrameStep =>
        \A a \in Aliens :
            /\ alienState[a] = 2 => alienState'[a] = 2
            /\ alienState[a] = 1 => alienState'[a] \in {1, 2}]_vars

\* C4: in a frame the score is unchanged or rises by exactly 100, it rises
\* only when a cell that was Alive becomes Exploding, and so it is always
\* 100 times the number of cells no longer Alive.
C4_ScoreCountsKills ==
    /\ [](nScore = ScoreIncrement * Cardinality({a \in Aliens : alienState[a] # 0}))
    /\ [][FrameStep =>
            /\ nScore' \in {nScore, nScore + ScoreIncrement}
            /\ nScore' # nScore => \E a \in Aliens : alienState[a] = 0 /\ alienState'[a] = 1]_vars

\* C5: every index a frame uses on the screen buffer and on alienState is
\* within bounds.
C5_IndicesInBounds == oobAccess = {}

\* C6: a frame whose movement step finds the formation at the bottom
\* threshold ends the round: game-over is set when the frame completes and
\* no further frame of the round is stepped.
C6_BottomEndsRound ==
    [][(FrameStep /\ nAlienBlockY + nAlienBlockHeight >= nScreenHeight)
        => (bGameOver' /\ pc' # "round")]_vars

\* C7: a frame that samples the quit key down is the last frame: the round
\* loop is left and no new round is started.
C7_QuitEndsLoop ==
    [][(FrameStep /\ bKeyPressed'.ESC) => (bGameOver' /\ pc' = "done")]_vars

\* the enemy projectiles the frame stopped at the bottom row inside the
\* footprint the player has after the frame
ConfirmedHit ==
    \E k \in 1 .. nMaxAlienBullet :
        /\ ~alienBullets'[k].visible
        /\ alienBullets'[k].y = nScreenHeight
        /\ Round(fPlayerX') <= Round(alienBullets'[k].x)
        /\ Round(alienBullets'[k].x) < Round(fPlayerX') + 3

\* C8: lives stay within 0..3, a frame takes at most one life and only on
\* a confirmed hit while the player is not in the hit state, and a hit
\* that brings lives to 0 ends the round with that frame.
C8_Lives ==
    /\ [](nLives \in 0 .. StartLives)
    /\ [][FrameStep =>
            /\ nLives' \in {nLives, nLives - 1}
            /\ nLives' # nLives => (~bPlayerHit /\ ConfirmedHit)
            /\ (nLives' # nLives /\ nLives' = 0) => (bGameOver' /\ pc' # "round")]_vars

\* lives have been brought to 0 by a hit and the round is over
C8_Witness == nLives = 0 /\ bGameOver /\ pc = "wait"

\* C9: every shield cell keeps its strength within 0..MaxStrength and no
\* frame of a round raises it.
C9_ShieldStrength ==
    /\ [](\A n \in 1 .. nShields : \A c \in ShieldCells :
            shields[n].m_strength[c] \in 0 .. MaxStrength)
    /\ [][FrameStep =>
            \A n \in 1 .. nShields : \A c \in ShieldCells :
                shields'[n].m_strength[c] <= shields[n].m_strength[c]]_vars

\* a shield cell has absorbed two projectiles in the frames of a round
C9_Witness ==
    /\ nFrames > 0
    /\ \E n \in 1 .. nShields : \E c \in ShieldCells : shields[n].m_strength[c] <= MaxStrength - 2

\* C10: on a fresh shield, the hits on one cell of the footprint return
\* true exactly MaxStrength times and take one off its strength each; every
\* later hit on the cell returns false and changes nothing, and a hit
\* outside the footprint returns false and changes nothing.
C10_ShieldAbsorbs ==
    /\ \A q \in InPoints :
        /\ probeTrue[q] = (IF probeCalls[q] < MaxStrength THEN probeCalls[q] ELSE MaxStrength)
        /\ probe.m_strength[ShieldOff(probe, q[1], q[2])] = MaxStrength - probeTrue[q]
    /\ \A c \in ShieldCells :
        (\A q \in InPoints : c # ShieldOff(probe, q[1], q[2])) => probe.m_strength[c] = MaxStrength
    /\ probeArg \in OutPoints => ~probeRet
    /\ probeArg \in InPoints => (probeRet <=> probeCalls[probeArg] <= MaxStrength)

\* a cell has been hit after it has given all its strength
C10_Witness ==
    /\ probeArg \in InPoints /\ probeCalls[probeArg] > MaxStrength
    /\ probeTrue[probeArg] = MaxStrength
    /\ probe.m_strength[ShieldOff(probe, probeArg[1], probeArg[2])] = 0

\* C11: a frame that starts with the player projectile visible only moves
\* it: its x is unchanged, its y is the old y less the distance flown, and
\* it is not back at the launch row, whatever the fire key is sampled as.
C11_NoRelaunch ==
    [][(FrameStep /\ bullet.visible) =>
            /\ bullet'.x = bullet.x
            /\ bullet'.y = bullet.y - fElapsedTime'
            /\ bullet'.y # nScreenHeight - 2]_vars

\* the fire key was sampled down by a frame that started with the
\* projectile in flight
C11_Witness ==
    /\ bullet.visible /\ bullet.y < nScreenHeight - 2 /\ bullet.y > 0
    /\ bKeyPressed.SPACEBAR /\ ~bKeyHold

\* C12: the formation stays on screen horizontally, 0 <= nAlienBlockX and
\* the last glyph column nAlienBlockX + 6*9 + 2 < nScreenWidth, and a frame
\* moves it sideways only by the step direction the frame leaves.
C12_FormationOnScreen ==
    /\ [](/\ 0 <= nAlienBlockX
          /\ nAlienBlockX + 6 * (nAlienBlockWidth - 1) + 2 < nScreenWidth)
    /\ [][FrameStep => nAlienBlockX' - nAlienBlockX \in {0, nAlienStep'}]_vars

\* a round that started with the step direction -1 has reversed at the
\* left edge
C12_Witness ==
    /\ nRounds >= 2 /\ nFrames = 3
    /\ nAlienBlockX = 1 /\ nAlienBlockY = 3 /\ nAlienStep = 1

\* a step that launches the player projectile
Launch == ~bullet.visible /\ bullet'.visible

\* C13: a launch happens only if the fire key was sampled up in some frame
\* since the launch before it.
C13_LatchRearm == [][(FrameStep /\ Launch) => fireReleased]_vars

\* the player projectile is absorbed by a shield in this frame: it was in
\* flight and the cell it moves to belongs to a shield and has strength left
PlayerAbsorbed ==
    /\ bullet.visible
    /\ \E n \in 1 .. nShields :
        /\ InFootprint(shields[n], Round(bullet.x), bullet'.y)
        /\ shields[n].m_strength[ShieldOff(shields[n], Round(bullet.x), bullet'.y)] > 0

\* a shield cell at the place the frame leaves enemy projectile k at lost
\* strength in this frame
EnemyAbsorbed(k) ==
    /\ ~alienBullets'[k].visible
    /\ \E n \in 1 .. nShields :
        /\ InFootprint(shields[n], Round(alienBullets'[k].x), alienBullets'[k].y)
        /\ shields'[n].m_strength[ShieldOff(shields[n], Round(alienBullets'[k].x), alienBullets'[k].y)]
             < shields[n].m_strength[ShieldOff(shields[n], Round(alienBullets'[k].x), alienBullets'[k].y)]

\* C14: in a frame in which a shield absorbs the player projectile no cell
\* becomes Exploding and the score does not change, and an enemy projectile
\* absorbed by a shield registers no hit on the player.
C14_AbsorbedStops ==
    [][FrameStep =>
            /\ PlayerAbsorbed =>
                /\ nScore' = nScore
                /\ \A a \in Aliens : alienState'[a] = 1 => alienState[a] = 1
            /\ \A k \in 1 .. nMaxAlienBullet :
                (EnemyAbsorbed(k) /\ alienBullets'[k].y = nScreenHeight) => nLives' = nLives]_vars

\* C15: the hit flag of the player is not cleared before 1.0 time-units
\* have been measured since the hit, and it is cleared by the first frame
\* that starts with 1.0 time-units measured.
C15_HitDuration ==
    [][FrameStep =>
            /\ (nLives' < nLives /\ ~bPlayerHit') => fElapsedTime' >= PlayerExplodeTicks
            /\ (bPlayerHit /\ ~bPlayerHit') => fSinceHit + fElapsedTime' >= PlayerExplodeTicks
            /\ (bPlayerHit /\ fSinceHit >= PlayerExplodeTicks) => ~bPlayerHit']_vars

\* C16: a frame in which the formation reverses takes the fixed decrement
\* off the animation delay, which is below its initial value from then on.
C16_DelayShrinks ==
    [][(FrameStep /\ nAlienStep' # nAlienStep) =>
            /\ fAnimDelay' = fAnimDelay - AnimDelayDecTicks
            /\ fAnimDelay' < AnimDelayTicks]_vars

\* C17: when a round is about to step its first frame, the round state is
\* the fresh one: all enemies Alive, none exploding, the formation at (2,2)
\* stepping to the right, the shields at full strength, every projectile
\* invisible, score 0, lives 3 and the fire latch armed.
C17_FreshRound ==
    (pc = "round" /\ nFrames = 0) =>
        /\ \A a \in Aliens : alienState[a] = 0
        /\ nAlienExploding = -1 /\ fExplodingElapsed = 0
        /\ nAlienBlockX = 2 /\ nAlienBlockY = 2 /\ nAlienStep = 1
        /\ fAnimDelay = AnimDelayTicks /\ fAnimElapsed = 0
        /\ shields = InitShields
        /\ ~bullet.visible /\ \A k \in 1 .. nMaxAlienBullet : ~alienBullets[k].visible
        /\ nScore = 0 /\ nLives = StartLives /\ ~bPlayerHit /\ ~bGameOver
        /\ bKeyHold

\* C18 as stated: no frame leaves nAlienBlockY smaller than it found it, and
\* it changes only by the +1 of an edge reversal.
C18_RowOnlyGrows ==
    [][FrameStep =>
            /\ nAlienBlockY' >= nAlienBlockY
            /\ nAlienBlockY' # nAlienBlockY =>
                (nAlienBlockY' = nAlienBlockY + 1 /\ nAlienStep' # nAlienStep)]_vars

\* C18: a frame that finds the formation at the bottom threshold puts
\* nAlienBlockY back to 2; every other frame leaves it as it was or raises
\* it by the +1 of an edge reversal.
C18_RowGrowsUntilBottom ==
    [][FrameStep =>
            IF nAlienBlockY + nAlienBlockHeight >= nScreenHeight
            THEN nAlienBlockY' = 2
            ELSE /\ nAlienBlockY' \in {nAlienBlockY, nAlienBlockY + 1}
                 /\ nAlienBlockY' = nAlienBlockY + 1 => nAlienStep' # nAlienStep]_vars

\* the formation has marched down to the bottom threshold and the frame
\* that found it there has put it back to row 2
C18_Witness ==
    /\ nFrames = 1440 /\ nAlienBlockY = 2 /\ nAlienBlockX = 1
    /\ bGameOver /\ ~bQuit /\ nLives = StartLives

\* the strength all shield cells together lose in a step
StrengthLost ==
    Cardinality({q \in (1 .. nShields) \X ShieldCells \X (1 .. MaxStrength) :
                    /\ shields'[q[1]].m_strength[q[2]] < q[3]
                    /\ q[3] <= shields[q[1]].m_strength[q[2]]})

\* C19: in a frame the shield cells lose, across all three shields, one
\* unit of strength for each projectile a shield absorbed and no more.
C19_OneCellPerProjectile == [][FrameStep => StrengthLost <= nAbsorbed']_vars

\* an enemy projectile has been absorbed by a shield cell in the last frame
C19_Witness ==
    /\ nAbsorbed > 0
    /\ \E k \in 1 .. nMaxAlienBullet : \E n \in 1 .. nShields :
        /\ ~alienBullets[k].visible
        /\ InFootprint(shields[n], Round(alienBullets[k].x), alienBullets[k].y)
        /\ shields[n].m_strength[ShieldOff(shields[n], Round(alienBullets[k].x), alienBullets[k].y)]
             < MaxStrength

RoundEndsUnlessAborted == (pc = "round") ~> (bGameOver \/ pc = "aborted")


====
